---- MODULE Spec2Model ----
(***************************************************************************)
(* Model of the RoboPac Discord faucet bot: Bot.messageHandler,            *)
(* Bot.validateInfo and Bot.networkInfo (discord/discord.go) on top of     *)
(* the node client (client package), the faucet wallet and the SafeStore.  *)
(* Every inbound message runs the handler in its own goroutine; a handler  *)
(* is modelled as a process whose steps are its blocking calls.            *)
(***************************************************************************)
EXTENDS Integers, Sequences, FiniteSets, TLC

(* ------------------------------ bounds --------------------------------- *)
\* number of inbound messages (handler goroutines) of a run
MaxReqs == 2
\* cfg.FaucetAmount, in indivisible coin units
FaucetAmount == 2

(* --------------------------- program constants ------------------------- *)
\* the sync-lag threshold of validateInfo
SyncLagLimit == 1080
\* heights are uint32: kept as two 16-bit halves, W16 is the half's modulus
W16 == 65536

Reqs == 1..MaxReqs

(* ------------------------------ strings -------------------------------- *)
\* message contents are sequences of characters
Help == <<"h", "e", "l", "p">>
Network == <<"n", "e", "t", "w", "o", "r", "k">>
Address == <<"a", "d", "d", "r", "e", "s", "s">>
Balance == <<"b", "a", "l", "a", "n", "c", "e">>
AddrA == <<"t", "p", "c", "A">>
AddrB == <<"t", "p", "c", "B">>
AddrC == <<"t", "p", "c", "C">>
AddrD == <<"t", "p", "c", "D">>
Bad == <<"x", " ", "y">>
PadB == <<" ">> \o AddrB \o <<" ", " ">>
\* the empty string
NoAddr == <<>>

Contents == {Help, Network, Address, Balance, AddrA, PadB, AddrC, AddrD, Bad}

\* strings.Trim(s, " "): drop the leading and the trailing spaces
RECURSIVE TrimLeft(_)
TrimLeft(s) ==
    IF s # <<>> /\ Head(s) = " " THEN TrimLeft(Tail(s)) ELSE s

RECURSIVE TrimRight(_)
TrimRight(s) ==
    IF s # <<>> /\ s[Len(s)] = " " THEN TrimRight(SubSeq(s, 1, Len(s) - 1)) ELSE s

Trim(s) == TrimRight(TrimLeft(s))

\* crypto.AddressFromString: the strings the chain library parses as addresses
AddressFromString(a) == a \in {AddrA, AddrB, AddrC, AddrD}

(* ------------------------------ uint32 --------------------------------- *)
U32(h, l) == [hi |-> h, lo |-> l]
Zero32 == U32(0, 0)

Sub32NoBorrow(a, b) == U32((a.hi - b.hi) % W16, (a.lo - b.lo) % W16)

\* a - b in uint32 arithmetic (wraps around below zero)
Sub32(a, b) ==
    LET borrow == IF a.lo < b.lo THEN 1 ELSE 0
    IN  U32((a.hi - b.hi - borrow) % W16, (a.lo - b.lo) % W16)

\* x > 1080 for a uint32 x
OverLimit(x) == x.hi > 0 \/ x.lo > SyncLagLimit

\* heights the node may report for a peer and for the chain
PeerHeights == {U32(0, 7)}
ChainHeights == {U32(0, 6), U32(0, 1087), U32(0, 1088), U32(1, 3)}

(* ------------------------------- node ---------------------------------- *)
\* networkInfo.ConnectedPeers, in the node's order
ConnectedPeers ==
    << [PeerId |-> "mh1", ConsensusAddress |-> <<AddrA, AddrB>>, PublicKey |-> "pk1"],
       [PeerId |-> "mh2", ConsensusAddress |-> <<NoAddr, AddrC>>, PublicKey |-> "pk2"],
       [PeerId |-> "raw", ConsensusAddress |-> <<AddrD>>, PublicKey |-> "pk3"] >>

NoPeer == [PeerId |-> "", ConsensusAddress |-> <<>>, PublicKey |-> ""]

\* lines 66-72: one of the peer's consensus addresses, an empty one never
\* counting, is the address
HasAddress(p, address) ==
    \E i \in 1..Len(p.ConsensusAddress) :
        p.ConsensusAddress[i] # NoAddr /\ p.ConsensusAddress[i] = address

\* what the node answers to a call: reply.ok = FALSE when the call errors
NetworkReply(ok, peers) == [ok |-> ok, ConnectedPeers |-> peers]
ChainReply(ok, h) == [ok |-> ok, LastBlockHeight |-> h]
NoErr == "nil"
RpcErr == "rpc error"
PeerNotFound == "peer does not exist"

\* Client.GetNetworkInfo: the node's answer, or the call's error
ClientGetNetworkInfo(reply) ==
    IF reply.ok THEN [err |-> NoErr, isNil |-> FALSE, ConnectedPeers |-> reply.ConnectedPeers]
    ELSE [err |-> RpcErr, isNil |-> TRUE, ConnectedPeers |-> <<>>]

\* Client.GetBlockchainInfo
ClientGetBlockchainInfo(reply) ==
    IF reply.ok THEN [err |-> NoErr, isNil |-> FALSE, LastBlockHeight |-> reply.LastBlockHeight]
    ELSE [err |-> RpcErr, isNil |-> TRUE, LastBlockHeight |-> Zero32]

\* Client.GetBlockchainHeight
ClientGetBlockchainHeight(reply) ==
    IF reply.ok THEN [err |-> NoErr, height |-> reply.LastBlockHeight]
    ELSE [err |-> RpcErr, height |-> Zero32]

\* Client.GetPeerInfo: the error of GetNetworkInfo is dropped; the first peer
\* with the address is returned, else "peer does not exist"
ClientGetPeerInfo(reply, address) ==
    LET networkInfo == ClientGetNetworkInfo(reply)
        peers == networkInfo.ConnectedPeers
        hits == {i \in 1..Len(peers) : HasAddress(peers[i], address)}
    IN  IF ~networkInfo.isNil /\ hits # {}
        THEN [err |-> NoErr, peer |-> peers[CHOOSE i \in hits : \A j \in hits : i <= j]]
        ELSE [err |-> PeerNotFound, peer |-> NoPeer]

\* client.GetPeerInfo as validateInfo calls it, on the node's connected peers
GetPeerInfo(netOK, address) ==
    LET got == ClientGetPeerInfo(NetworkReply(netOK, ConnectedPeers), address)
    IN  [err |-> got.err # NoErr, peer |-> got.peer]

\* peer.IDFromBytes and ID.String: only a multihash is a peer identity
IDFromBytes(b) ==
    IF b = "mh1" THEN [err |-> FALSE, id |-> "12D3mh1"]
    ELSE IF b = "mh2" THEN [err |-> FALSE, id |-> "12D3mh2"]
    ELSE [err |-> TRUE, id |-> ""]

NoPeerID == ""

(* ------------------------------ store ---------------------------------- *)
\* SafeStore.GetData: the record of the key, if any
GetData(st, peerID) ==
    LET found == {rec \in st : rec.peerIdentity = peerID}
    IN  IF found = {} THEN [exists |-> FALSE, ValidatorAddress |-> NoAddr]
        ELSE [exists |-> TRUE, ValidatorAddress |-> (CHOOSE rec \in found : TRUE).validatorAddress]

SetDataOverwrite(st, peerID, address, username, userID, amount) ==
    [err |-> FALSE,
     store |-> {rec \in st : rec.peerIdentity # peerID}
               \cup {[peerIdentity |-> peerID, validatorAddress |-> address,
                      requesterUsername |-> username, requesterUserID |-> userID,
                      amount |-> amount]}]

\* SafeStore.SetData: insert-if-absent; an existing key makes it fail and
\* leaves the store as it is
SetData(st, peerID, address, username, userID, amount) ==
    IF \E rec \in st : rec.peerIdentity = peerID
    THEN [err |-> TRUE, store |-> st]
    ELSE [err |-> FALSE,
          store |-> st \cup {[peerIdentity |-> peerID, validatorAddress |-> address,
                              requesterUsername |-> username, requesterUserID |-> userID,
                              amount |-> amount]}]

(* ----------------------------- messages -------------------------------- *)
BotID == <<"bot", 0>>
\* the chat user who writes the r-th message, unless the bot wrote it itself
User(r) == <<"user", r>>
Username(id) == <<"name", id>>

\* a reply: the kind of text and the values formatted into it
Msg(kind, addr, lag, amount) == [kind |-> kind, addr |-> addr, lag |-> lag, amount |-> amount]
Plain(kind) == Msg(kind, NoAddr, Zero32, 0)

NoMessage == [Content |-> <<>>, Author |-> <<>>]
NoLocal == [peerID |-> NoPeerID, peerHeight |-> Zero32, height |-> Zero32, pubKey |-> ""]
NoCalls == [conn |-> 0, query |-> 0, get |-> 0, set |-> 0, bal |-> 0, bond |-> 0, fail |-> 0]
NoTx == [peerID |-> NoPeerID, hash |-> "none", set |-> "none"]
NoCall == [op |-> "none", ok |-> TRUE, peers |-> <<>>, address |-> NoAddr,
           err |-> NoErr, peer |-> NoPeer, height |-> Zero32]

VARIABLES
    pc,         \* where each handler stands
    m,          \* the message each handler was called with
    local,      \* the live local variables of validateInfo / messageHandler
    replies,    \* the messages each handler sent to its channel
    calls,      \* the calls each handler made to node, store and wallet
    tx,         \* outcome of each handler's BondTransaction
    store,      \* the SafeStore's records
    available,  \* the faucet wallet's available balance
    openConns,  \* node connections open right now
    paidBefore, \* peer identities already paid when each handler started
    facade      \* the last call made on a node client, with what it returned

vars == <<pc, m, local, replies, calls, tx, store, available, openConns, paidBefore,
          facade>>

Init ==
    /\ pc = [r \in Reqs |-> "idle"]
    /\ m = [r \in Reqs |-> NoMessage]
    /\ local = [r \in Reqs |-> NoLocal]
    /\ replies = [r \in Reqs |-> <<>>]
    /\ calls = [r \in Reqs |-> NoCalls]
    /\ tx = [r \in Reqs |-> NoTx]
    /\ store = {}
    /\ available \in {FaucetAmount - 1, 2 * FaucetAmount}
    /\ openConns = 0
    /\ paidBefore = [r \in Reqs |-> {}]
    /\ facade = NoCall

\* the peer identities some handler's transfer has been submitted to
Paid == {tx[q].peerID : q \in {q \in Reqs : tx[q].hash = "txh"}}

trimmedAddress(r) == Trim(m[r].Content)

Send(r, msg) == replies' = [replies EXCEPT ![r] = Append(@, msg)]
Goto(r, l) == pc' = [pc EXCEPT ![r] = l]
Count(r, f) == calls' = [calls EXCEPT ![r][f] = @ + 1]
\* a call to the node, which may come back with an error
Called(r, f, ok) ==
    calls' = [calls EXCEPT ![r][f] = @ + 1, ![r].fail = @ + (IF ok THEN 0 ELSE 1)]
Forget(r) == local' = [local EXCEPT ![r] = NoLocal]
Close == openConns' = openConns - 1

Keywords == {Help, Network, Address, Balance}

(* ------------------------- Bot.messageHandler -------------------------- *)
\* the transport delivers a message and calls the handler in a new goroutine
receive(r) ==
    /\ pc[r] = "idle"
    /\ r > 1 => pc[r - 1] # "idle"
    /\ \E a \in {User(r), BotID} :
       \E c \in (IF a = BotID THEN {AddrA, Help} ELSE Contents) :
            m' = [m EXCEPT ![r] = [Content |-> c, Author |-> a]]
    /\ Goto(r, "handler")
    /\ paidBefore' = [paidBefore EXCEPT ![r] = Paid]
    /\ UNCHANGED <<local, replies, calls, tx, store, available, openConns, facade>>

ignoreOwnFallsThrough(r) ==
    /\ pc[r] = "handler"
    /\ m[r].Author = BotID
    /\ Send(r, Plain(IF m[r].Content = Help THEN "Help" ELSE "InvalidAddress"))
    /\ Goto(r, "done")
    /\ UNCHANGED <<m, local, calls, tx, store, available, openConns, paidBefore, facade>>

\* lines 60-62: a message of the bot itself is ignored
ignoreOwn(r) ==
    /\ pc[r] = "handler"
    /\ m[r].Author = BotID
    /\ Goto(r, "done")
    /\ UNCHANGED <<m, local, replies, calls, tx, store, available, openConns, paidBefore, facade>>

\* lines 64-68
helpReply(r) ==
    /\ pc[r] = "handler"
    /\ m[r].Author # BotID
    /\ m[r].Content = Help
    /\ Send(r, Plain("Help"))
    /\ Goto(r, "done")
    /\ UNCHANGED <<m, local, calls, tx, store, available, openConns, paidBefore, facade>>

\* lines 74-78
addressReply(r) ==
    /\ pc[r] = "handler"
    /\ m[r].Author # BotID
    /\ m[r].Content = Address
    /\ Send(r, Plain("FaucetAddress"))
    /\ Goto(r, "done")
    /\ UNCHANGED <<m, local, calls, tx, store, available, openConns, paidBefore, facade>>

\* lines 80-85: the wallet's balance is read and reported
balanceReply(r) ==
    /\ pc[r] = "handler"
    /\ m[r].Author # BotID
    /\ m[r].Content = Balance
    /\ Count(r, "bal")
    /\ Send(r, Msg("Balance", NoAddr, Zero32, available))
    /\ Goto(r, "done")
    /\ UNCHANGED <<m, local, tx, store, available, openConns, paidBefore, facade>>

(* --------------------------- Bot.networkInfo --------------------------- *)
\* lines 69-70 and 163-169: "network" opens a node connection
networkInfo(r) ==
    /\ pc[r] = "handler"
    /\ m[r].Author # BotID
    /\ m[r].Content = Network
    /\ \E ok \in BOOLEAN :
        /\ Called(r, "conn", ok)
        /\ IF ok
           THEN /\ openConns' = openConns + 1
                /\ Goto(r, "ni_network")
                /\ UNCHANGED replies
           ELSE /\ Send(r, Plain("NetworkBase"))
                /\ Goto(r, "done")
                /\ UNCHANGED openConns
    /\ UNCHANGED <<m, local, tx, store, available, paidBefore, facade>>

\* lines 170-179: client.GetNetworkInfo
niNetwork(r) ==
    /\ pc[r] = "ni_network"
    /\ \E ok \in BOOLEAN :
        /\ Called(r, "query", ok)
        /\ IF ok
           THEN /\ Goto(r, "ni_chain")
                /\ UNCHANGED <<replies, openConns>>
           ELSE /\ Send(r, Plain("NetworkBase"))
                /\ Close
                /\ Goto(r, "done")
    /\ UNCHANGED <<m, local, tx, store, available, paidBefore, facade>>

niChainDropsStats(r) ==
    /\ pc[r] = "ni_chain"
    /\ \E ok \in BOOLEAN :
        /\ Called(r, "query", ok)
        /\ Send(r, Plain(IF ok THEN "NetworkFull" ELSE "NetworkBase"))
    /\ Close
    /\ Goto(r, "done")
    /\ UNCHANGED <<m, local, tx, store, available, paidBefore, facade>>

\* lines 181-190: client.GetBlockchainInfo, then the deferred Close
niChain(r) ==
    /\ pc[r] = "ni_chain"
    /\ \E ok \in BOOLEAN :
        /\ Called(r, "query", ok)
        /\ Send(r, Plain(IF ok THEN "NetworkFull" ELSE "NetworkStats"))
    /\ Close
    /\ Goto(r, "done")
    /\ UNCHANGED <<m, local, tx, store, available, paidBefore, facade>>

(* --------------------------- Bot.validateInfo -------------------------- *)
IsFaucetRequest(r) ==
    /\ pc[r] = "handler"
    /\ m[r].Author # BotID
    /\ m[r].Content \notin Keywords

invalidAddressAfterConnect(r) ==
    /\ IsFaucetRequest(r)
    /\ ~AddressFromString(trimmedAddress(r))
    /\ Count(r, "conn")
    /\ Send(r, Plain("InvalidAddress"))
    /\ Goto(r, "done")
    /\ UNCHANGED <<m, local, tx, store, available, openConns, paidBefore, facade>>

\* lines 88-94 and 119-123: the trimmed content is no address
invalidAddress(r) ==
    /\ IsFaucetRequest(r)
    /\ ~AddressFromString(trimmedAddress(r))
    /\ Send(r, Plain("InvalidAddress"))
    /\ Goto(r, "done")
    /\ UNCHANGED <<m, local, calls, tx, store, available, openConns, paidBefore, facade>>

\* lines 119-129: the address parses, client.NewClient opens the connection
newClient(r) ==
    /\ IsFaucetRequest(r)
    /\ AddressFromString(trimmedAddress(r))
    /\ \E ok \in BOOLEAN :
        /\ Called(r, "conn", ok)
        /\ IF ok
           THEN /\ openConns' = openConns + 1
                /\ Goto(r, "peerinfo")
                /\ UNCHANGED replies
           ELSE /\ Send(r, Plain("NodeUnreachable"))
                /\ Goto(r, "done")
                /\ UNCHANGED openConns
    /\ UNCHANGED <<m, local, tx, store, available, paidBefore, facade>>

\* lines 130-141: client.GetPeerInfo, then peer.IDFromBytes
peerInfo(r) ==
    /\ pc[r] = "peerinfo"
    /\ \E netOK \in BOOLEAN, pub \in {"nil", "empty", "key"}, h \in PeerHeights :
        /\ Called(r, "query", netOK)
        /\ LET got == GetPeerInfo(netOK, trimmedAddress(r))
               id == IDFromBytes(got.peer.PeerId)
           IN  IF got.err \/ pub = "nil" \/ id.err \/ id.id = ""
               THEN /\ Send(r, Plain("PeerInfoUnavailable"))
                    /\ Close
                    /\ Goto(r, "done")
                    /\ UNCHANGED local
               ELSE /\ local' = [local EXCEPT ![r] =
                           [peerID |-> id.id, peerHeight |-> h, height |-> Zero32,
                            pubKey |-> IF pub = "key" THEN got.peer.PublicKey ELSE ""]]
                    /\ Goto(r, "getdata")
                    /\ UNCHANGED <<replies, openConns>>
    /\ UNCHANGED <<m, tx, store, available, paidBefore, facade>>

getDataEchoRequest(r) ==
    /\ pc[r] = "getdata"
    /\ Count(r, "get")
    /\ LET v == GetData(store, local[r].peerID)
       IN  IF v.exists
           THEN /\ Send(r, Msg("AlreadyClaimed", trimmedAddress(r), Zero32, 0))
                /\ Close
                /\ Forget(r)
                /\ Goto(r, "done")
           ELSE /\ Goto(r, "height")
                /\ UNCHANGED <<replies, openConns, local>>
    /\ UNCHANGED <<m, tx, store, available, paidBefore, facade>>

getDataNoClose(r) ==
    /\ pc[r] = "getdata"
    /\ Count(r, "get")
    /\ LET v == GetData(store, local[r].peerID)
       IN  IF v.exists
           THEN /\ Send(r, Msg("AlreadyClaimed", v.ValidatorAddress, Zero32, 0))
                /\ Forget(r)
                /\ Goto(r, "done")
                /\ UNCHANGED openConns
           ELSE /\ Goto(r, "height")
                /\ UNCHANGED <<replies, openConns, local>>
    /\ UNCHANGED <<m, tx, store, available, paidBefore, facade>>

getDataNoReturn(r) ==
    /\ pc[r] = "getdata"
    /\ Count(r, "get")
    /\ LET v == GetData(store, local[r].peerID)
       IN  IF v.exists
           THEN Send(r, Msg("AlreadyClaimed", v.ValidatorAddress, Zero32, 0))
           ELSE UNCHANGED replies
    /\ Goto(r, "height")
    /\ UNCHANGED <<m, local, tx, store, available, openConns, paidBefore, facade>>

\* lines 142-145: the duplicate-claim lookup in the store
getData(r) ==
    /\ pc[r] = "getdata"
    /\ Count(r, "get")
    /\ LET v == GetData(store, local[r].peerID)
       IN  IF v.exists
           THEN /\ Send(r, Msg("AlreadyClaimed", v.ValidatorAddress, Zero32, 0))
                /\ Close
                /\ Forget(r)
                /\ Goto(r, "done")
           ELSE /\ Goto(r, "height")
                /\ UNCHANGED <<replies, openConns, local>>
    /\ UNCHANGED <<m, tx, store, available, paidBefore, facade>>

\* lines 148-152: client.GetBlockchainHeight
getBlockchainHeight(r) ==
    /\ pc[r] = "height"
    /\ \E ok \in BOOLEAN, h \in ChainHeights :
        /\ Called(r, "query", ok)
        /\ IF ok
           THEN /\ local' = [local EXCEPT ![r].height = h]
                /\ Goto(r, "lagcheck")
                /\ UNCHANGED <<replies, openConns>>
           ELSE /\ Send(r, Plain("NodeUnreachable"))
                /\ Close
                /\ Forget(r)
                /\ Goto(r, "done")
    /\ UNCHANGED <<m, tx, store, available, paidBefore, facade>>

\* lines 153-159 and 89-96: the lag gate, validateInfo's return (with the
\* deferred Close) and the handler's test of the public key
lagCheck(r) ==
    /\ pc[r] = "lagcheck"
    /\ Close
    /\ LET lag == Sub32(local[r].height, local[r].peerHeight)
       IN  IF OverLimit(lag)
           THEN /\ Send(r, Msg("NotSynced", NoAddr, lag, 0))
                /\ Forget(r)
                /\ Goto(r, "done")
           ELSE IF local[r].pubKey # ""
           THEN /\ local' = [local EXCEPT ![r].height = Zero32, ![r].peerHeight = Zero32]
                /\ Goto(r, "balance")
                /\ UNCHANGED replies
           ELSE /\ Forget(r)
                /\ Goto(r, "done")
                /\ UNCHANGED replies
    /\ UNCHANGED <<m, calls, tx, store, available, paidBefore, facade>>

(* ---------------- Bot.messageHandler: the dispense ---------------------- *)
getBalanceNoReturn(r) ==
    /\ pc[r] = "balance"
    /\ Count(r, "bal")
    /\ IF available < FaucetAmount
       THEN Send(r, Plain("InsufficientFaucetBalance"))
       ELSE UNCHANGED replies
    /\ Goto(r, "bond")
    /\ UNCHANGED <<m, local, tx, store, available, openConns, paidBefore, facade>>

\* lines 99-103: faucetWallet.GetBalance against cfg.FaucetAmount
getBalance(r) ==
    /\ pc[r] = "balance"
    /\ Count(r, "bal")
    /\ IF available < FaucetAmount
       THEN /\ Send(r, Plain("InsufficientFaucetBalance"))
            /\ Forget(r)
            /\ Goto(r, "done")
       ELSE /\ Goto(r, "bond")
            /\ UNCHANGED <<replies, local>>
    /\ UNCHANGED <<m, tx, store, available, openConns, paidBefore, facade>>

bondTransactionAlwaysRecord(r) ==
    /\ pc[r] = "bond"
    /\ Count(r, "bond")
    /\ \E ok \in BOOLEAN :
        IF ok /\ available >= FaucetAmount
        THEN /\ available' = available - FaucetAmount
             /\ tx' = [tx EXCEPT ![r].peerID = local[r].peerID, ![r].hash = "txh"]
        ELSE /\ tx' = [tx EXCEPT ![r].peerID = local[r].peerID, ![r].hash = ""]
             /\ UNCHANGED available
    /\ Goto(r, "setdata")
    /\ UNCHANGED <<m, local, replies, store, openConns, paidBefore, facade>>

\* lines 106-107 and 114-116: faucetWallet.BondTransaction; the wallet sends
\* the amount only if it has it, and may fail anyway (empty hash)
bondTransaction(r) ==
    /\ pc[r] = "bond"
    /\ Count(r, "bond")
    /\ \E ok \in BOOLEAN :
        IF ok /\ available >= FaucetAmount
        THEN /\ available' = available - FaucetAmount
             /\ tx' = [tx EXCEPT ![r].peerID = local[r].peerID, ![r].hash = "txh"]
             /\ Goto(r, "setdata")
             /\ UNCHANGED local
        ELSE /\ tx' = [tx EXCEPT ![r].peerID = local[r].peerID, ![r].hash = ""]
             /\ Forget(r)
             /\ Goto(r, "done")
             /\ UNCHANGED available
    /\ UNCHANGED <<m, replies, store, openConns, paidBefore, facade>>

setDataReturnOnError(r) ==
    /\ pc[r] = "setdata"
    /\ Count(r, "set")
    /\ LET res == SetData(store, local[r].peerID, trimmedAddress(r),
                          Username(m[r].Author), m[r].Author, FaucetAmount)
       IN  /\ store' = res.store
           /\ tx' = [tx EXCEPT ![r].set = IF res.err THEN "err" ELSE "ok"]
           /\ IF res.err
              THEN UNCHANGED replies
              ELSE Send(r, Msg("Success", NoAddr, Zero32, FaucetAmount))
    /\ Forget(r)
    /\ Goto(r, "done")
    /\ UNCHANGED <<m, available, openConns, paidBefore, facade>>

\* lines 108-113: store.SetData, its error only logged, then the success reply
setData(r) ==
    /\ pc[r] = "setdata"
    /\ Count(r, "set")
    /\ LET res == SetData(store, local[r].peerID, trimmedAddress(r),
                          Username(m[r].Author), m[r].Author, FaucetAmount)
       IN  /\ store' = res.store
           /\ tx' = [tx EXCEPT ![r].set = IF res.err THEN "err" ELSE "ok"]
    /\ Send(r, Msg("Success", NoAddr, Zero32, FaucetAmount))
    /\ Forget(r)
    /\ Goto(r, "done")
    /\ UNCHANGED <<m, available, openConns, paidBefore, facade>>

messageHandler(r) ==
    \/ ignoreOwn(r)
    \/ helpReply(r)
    \/ networkInfo(r)
    \/ niNetwork(r)
    \/ niChain(r)
    \/ addressReply(r)
    \/ balanceReply(r)
    \/ invalidAddress(r)
    \/ newClient(r)
    \/ peerInfo(r)
    \/ getData(r)
    \/ getBlockchainHeight(r)
    \/ lagCheck(r)
    \/ getBalance(r)
    \/ bondTransaction(r)
    \/ setData(r)

Next == \E r \in Reqs : receive(r) \/ messageHandler(r)

Spec == Init /\ [][Next]_vars

(* ----------------------- the node client on its own -------------------- *)
\* longest list of connected peers the node answers with
MaxPeers == 2
AddrE == <<"t", "p", "c", "E">>
\* peers a node may be connected to; two of them share an address
PeerPool ==
    {ConnectedPeers[i] : i \in 1..Len(ConnectedPeers)}
        \cup {[PeerId |-> "mh4", ConsensusAddress |-> <<AddrB, AddrC>>, PublicKey |-> "pk4"]}
PeerLists == UNION {[1..n -> PeerPool] : n \in 0..MaxPeers}
\* addresses asked for: validateInfo passes only strings that parsed as addresses
QueryAddresses == {AddrA, AddrB, AddrC, AddrD, AddrE}

Unchanged == UNCHANGED <<pc, m, local, replies, calls, tx, store, available, openConns,
                         paidBefore>>

callGetPeerInfo ==
    /\ \E ok \in BOOLEAN, peers \in PeerLists, address \in QueryAddresses :
        LET got == ClientGetPeerInfo(NetworkReply(ok, peers), address)
        IN  facade' = [op |-> "GetPeerInfo", ok |-> ok, peers |-> peers,
                       address |-> address, err |-> got.err, peer |-> got.peer,
                       height |-> Zero32]
    /\ Unchanged

callGetNetworkInfo ==
    /\ \E ok \in BOOLEAN, peers \in PeerLists :
        LET got == ClientGetNetworkInfo(NetworkReply(ok, peers))
        IN  facade' = [op |-> "GetNetworkInfo", ok |-> ok, peers |-> got.ConnectedPeers,
                       address |-> NoAddr, err |-> got.err, peer |-> NoPeer,
                       height |-> Zero32]
    /\ Unchanged

callGetBlockchainInfo ==
    /\ \E ok \in BOOLEAN, h \in ChainHeights :
        LET got == ClientGetBlockchainInfo(ChainReply(ok, h))
        IN  facade' = [op |-> "GetBlockchainInfo", ok |-> ok, peers |-> <<>>,
                       address |-> NoAddr, err |-> got.err, peer |-> NoPeer,
                       height |-> got.LastBlockHeight]
    /\ Unchanged

callGetBlockchainHeight ==
    /\ \E ok \in BOOLEAN, h \in ChainHeights :
        LET got == ClientGetBlockchainHeight(ChainReply(ok, h))
        IN  facade' = [op |-> "GetBlockchainHeight", ok |-> ok, peers |-> <<>>,
                       address |-> NoAddr, err |-> got.err, peer |-> NoPeer,
                       height |-> got.height]
    /\ Unchanged

NextClient ==
    \/ callGetPeerInfo
    \/ callGetNetworkInfo
    \/ callGetBlockchainInfo
    \/ callGetBlockchainHeight

SpecClient == Init /\ [][NextClient]_vars

(* ======================================================================= *)
(*                              Properties                                 *)
(* ======================================================================= *)
PeerIDs == {"12D3mh1", "12D3mh2"}
\* past every gate of the request: about to submit, or past, its transfer
Authorized(r) == pc[r] \in {"bond", "setdata"}
PastLookup(r) == pc[r] \in {"height", "lagcheck", "balance", "bond", "setdata"}
Sent(r) == tx[r].hash = "txh"
\* the peer identity the node resolves an address to
PeerOf(address) == IDFromBytes(GetPeerInfo(TRUE, address).peer.PeerId).id
RecordsOf(st, p) == {rec \in st : rec.peerIdentity = p}
IsFaucetMessage(r) ==
    pc[r] # "idle" /\ m[r].Author # BotID /\ m[r].Content \notin Keywords

\* C1: of the concurrently handled requests that resolve to one peer identity
\* with no prior record, at most one is authorized at a time and at most one
\* transfer is submitted to that peer identity.
C1_OneAuthorizedPerPeer ==
    \A r1, r2 \in Reqs :
        r1 # r2 =>
            /\ ~(Authorized(r1) /\ Authorized(r2) /\ local[r1].peerID = local[r2].peerID)
            /\ ~(Sent(r1) /\ Sent(r2) /\ tx[r1].peerID = tx[r2].peerID)

\* C2: a request that starts after a transfer to its peer identity returned a
\* hash never passes the duplicate-claim lookup and never sends a transfer.
C2_RejectedAfterDispense ==
    \A r \in Reqs :
        /\ PastLookup(r) => local[r].peerID \notin paidBefore[r]
        /\ Sent(r) => tx[r].peerID \notin paidBefore[r]

\* C3: the store holds at most one record per peer identity, and a record,
\* once stored, is never changed or removed; a SetData on its key fails.
C3_OneImmutableRecord ==
    /\ [](\A p \in PeerIDs : Cardinality(RecordsOf(store, p)) <= 1)
    /\ [][\A p \in PeerIDs :
            RecordsOf(store, p) # {} =>
                /\ RecordsOf(store', p) = RecordsOf(store, p)
                /\ \A r \in Reqs :
                      (pc[r] = "setdata" /\ pc'[r] = "done" /\ local[r].peerID = p)
                          => tx'[r].set = "err"]_vars

C3_Witness ==
    \E r \in Reqs : tx[r].set = "err" /\ RecordsOf(store, tx[r].peerID) # {}

\* C4: a message whose trimmed content is no address is answered with the
\* InvalidAddress text, and its handler makes no node, store or wallet call.
C4_InvalidAddressTouchesNothing ==
    \A r \in Reqs :
        (IsFaucetMessage(r) /\ ~AddressFromString(Trim(m[r].Content))) =>
            /\ calls[r] = NoCalls
            /\ tx[r] = NoTx
            /\ local[r] = NoLocal
            /\ pc[r] \in {"handler", "done"}
            /\ pc[r] = "done" => replies[r] = <<Plain("InvalidAddress")>>
            /\ \A rec \in store : rec.requesterUserID # m[r].Author

C4_Witness ==
    \E r \in Reqs :
        /\ pc[r] = "done"
        /\ m[r].Content = Bad
        /\ replies[r] = <<Plain("InvalidAddress")>>
        /\ store # {}

\* heights as mathematical integers: order, and sum without wrap-around
Lt32(a, b) == a.hi < b.hi \/ (a.hi = b.hi /\ a.lo < b.lo)
Plus(a, b) ==
    [hi |-> a.hi + b.hi + ((a.lo + b.lo) \div W16), lo |-> (a.lo + b.lo) % W16]
Limit32 == U32(0, SyncLagLimit)
HasReply(r, kind) == \E i \in DOMAIN replies[r] : replies[r][i].kind = kind
StoredBy(r) == {rec \in store : rec.requesterUserID = m[r].Author}

\* C5: a request whose fetched chain height exceeds the peer's height by more
\* than 1080 ends with the NotSynced text carrying exactly that difference,
\* calls no transfer and writes no record; a difference of exactly 1080 passes.
C5_NotSyncedExactLag ==
    /\ [](\A r \in Reqs :
            HasReply(r, "NotSynced") =>
                /\ pc[r] = "done"
                /\ calls[r].bond = 0 /\ calls[r].set = 0 /\ calls[r].bal = 0
                /\ tx[r] = NoTx
                /\ StoredBy(r) = {})
    /\ [][\A r \in Reqs :
            (pc[r] = "lagcheck" /\ pc'[r] # "lagcheck") =>
                LET h == local[r].height
                    p == local[r].peerHeight
                IN  /\ Lt32(Plus(p, Limit32), h) =>
                          /\ pc'[r] = "done"
                          /\ Len(replies'[r]) = 1
                          /\ replies'[r][1].kind = "NotSynced"
                          /\ Plus(p, replies'[r][1].lag) = h
                          /\ store' = store /\ available' = available
                    /\ Plus(p, Limit32) = h => replies'[r] = <<>>]_vars

C5_Witness ==
    \E r \in Reqs :
        /\ pc[r] = "done"
        /\ replies[r] = <<Msg("NotSynced", NoAddr, U32(0, 65532), 0)>>

\* C6: a request that reads a balance below the faucet amount ends with the
\* InsufficientFaucetBalance text, calls neither BondTransaction nor SetData
\* and leaves store and wallet as they are.
C6_NoTransferWithoutFunds ==
    /\ [](\A r \in Reqs :
            HasReply(r, "InsufficientFaucetBalance") =>
                /\ pc[r] = "done"
                /\ calls[r].bond = 0 /\ calls[r].set = 0
                /\ tx[r] = NoTx
                /\ StoredBy(r) = {})
    /\ [][\A r \in Reqs :
            (pc[r] = "balance" /\ pc'[r] # "balance" /\ available < FaucetAmount) =>
                /\ pc'[r] = "done"
                /\ replies'[r] = <<Plain("InsufficientFaucetBalance")>>
                /\ store' = store /\ available' = available /\ tx' = tx]_vars

C6_Witness ==
    \E r \in Reqs :
        /\ pc[r] = "done"
        /\ replies[r] = <<Plain("InsufficientFaucetBalance")>>
        /\ calls[r].bal = 1

\* C7: a request that passed every gate and whose transfer returned a hash
\* replies with the success text and, once finished, the store holds a record
\* of its peer identity with its trimmed address and the faucet amount.
C7_SuccessIsRecorded ==
    \A r \in Reqs :
        (pc[r] = "done" /\ Sent(r)) =>
            /\ replies[r] = <<Msg("Success", NoAddr, Zero32, FaucetAmount)>>
            /\ \E rec \in store :
                  /\ rec.peerIdentity = tx[r].peerID
                  /\ rec.validatorAddress = Trim(m[r].Content)
                  /\ rec.amount = FaucetAmount

\* C8: the AlreadyClaimed text carries the validator address of the record
\* stored for the request's peer identity by the claim that succeeded first,
\* whatever address the rejected request submitted.
C8_EchoesStoredAddress ==
    \A r \in Reqs :
        \A i \in DOMAIN replies[r] :
            replies[r][i].kind = "AlreadyClaimed" =>
                /\ \E rec \in store :
                      /\ rec.peerIdentity = PeerOf(Trim(m[r].Content))
                      /\ rec.validatorAddress = replies[r][i].addr
                /\ \E q \in Reqs \ {r} :
                      /\ tx[q].set = "ok"
                      /\ tx[q].peerID = PeerOf(Trim(m[r].Content))
                      /\ Trim(m[q].Content) = replies[r][i].addr
                      /\ m[q].Author # m[r].Author

C8_Witness ==
    \E r \in Reqs :
        /\ pc[r] = "done"
        /\ HasReply(r, "AlreadyClaimed")
        /\ replies[r][1].addr # Trim(m[r].Content)

\* C9: when SetData fails after a transfer returned a hash, the handler still
\* sends the success text, calls BondTransaction and SetData once each and
\* adds no record of its own.
C9_StoreFailureKeepsSuccess ==
    \A r \in Reqs :
        tx[r].set = "err" =>
            /\ pc[r] = "done"
            /\ Sent(r)
            /\ replies[r] = <<Msg("Success", NoAddr, Zero32, FaucetAmount)>>
            /\ calls[r].bond = 1 /\ calls[r].set = 1
            /\ StoredBy(r) = {}

C9_Witness ==
    \E r \in Reqs, q \in Reqs :
        /\ tx[r].set = "err" /\ tx[q].set = "ok"
        /\ tx[r].peerID = tx[q].peerID
        /\ Len(replies[r]) = 1

\* C10: every message not written by the bot gets exactly one reply by the
\* time its handler has finished, and never more than one.
C10_ExactlyOneReply ==
    \A r \in Reqs :
        (pc[r] # "idle" /\ m[r].Author # BotID) =>
            /\ Len(replies[r]) <= 1
            /\ pc[r] = "done" => Len(replies[r]) = 1

\* the handler is between client.NewClient and the deferred client.Close
HoldsConn(r) ==
    pc[r] \in {"peerinfo", "getdata", "height", "lagcheck", "ni_network", "ni_chain"}

\* C11: the open node connections are exactly those of the evaluations and
\* reports in progress, one each, closed on every exit path (none is open when
\* nothing is in progress), and a handler queries the node only over the one
\* connection it opened itself.
C11_ConnectionPerOperation ==
    /\ openConns = Cardinality({r \in Reqs : HoldsConn(r)})
    /\ \A r \in Reqs :
          /\ calls[r].conn <= 1
          /\ calls[r].query > 0 => calls[r].conn = 1
          /\ HoldsConn(r) => calls[r].conn = 1

C11_Witness ==
    /\ openConns = 0
    /\ \A r \in Reqs : pc[r] = "done" /\ calls[r].query > 0
    /\ \E r \in Reqs : HasReply(r, "AlreadyClaimed")

\* C12: within a request the gates run in the order address syntax, connect,
\* peer lookup and identity, store lookup, chain height and lag, balance,
\* transfer, store insert; a step runs only after every earlier gate passed
\* and at most once, and the reply is that of the first gate that failed
\* (AlreadyClaimed comes before any chain-height fetch).
C12_GateOrder ==
    \A r \in Reqs :
        IsFaucetMessage(r) =>
            LET c == calls[r] IN
            /\ c.conn <= 1 /\ c.query <= 2 /\ c.get <= 1
            /\ c.bal <= 1 /\ c.bond <= 1 /\ c.set <= 1 /\ c.fail <= 1
            /\ Len(replies[r]) <= 1
            /\ c.conn = 1 => AddressFromString(Trim(m[r].Content))
            /\ c.query >= 1 => c.conn = 1
            /\ c.get = 1 => c.query >= 1
            /\ c.query = 2 => c.get = 1
            /\ c.bal = 1 => (c.query = 2 /\ c.fail = 0)
            /\ c.bond = 1 => c.bal = 1
            /\ c.set = 1 => (c.bond = 1 /\ Sent(r))
            /\ HasReply(r, "InvalidAddress") => c = NoCalls
            /\ HasReply(r, "NodeUnreachable") =>
                  /\ c.fail = 1 /\ c.bal = 0
                  /\ (c.query = 0 /\ c.get = 0) \/ (c.query = 2 /\ c.get = 1)
            /\ HasReply(r, "PeerInfoUnavailable") => (c.query = 1 /\ c.get = 0)
            /\ HasReply(r, "AlreadyClaimed") =>
                  (c.query = 1 /\ c.get = 1 /\ c.bal = 0 /\ c.fail = 0)
            /\ HasReply(r, "NotSynced") =>
                  (c.query = 2 /\ c.get = 1 /\ c.bal = 0 /\ c.fail = 0)
            /\ HasReply(r, "InsufficientFaucetBalance") => (c.bal = 1 /\ c.bond = 0)
            /\ HasReply(r, "Success") => (c.set = 1 /\ c.bond = 1)

C12_Witness ==
    \E r, q \in Reqs :
        /\ pc[r] = "done" /\ pc[q] = "done"
        /\ HasReply(q, "Success") /\ calls[q].set = 1
        /\ HasReply(r, "AlreadyClaimed") /\ calls[r].query = 1

\* C13: a peer whose sync height is at or above the fetched chain height
\* passes the lag gate: its request is not answered with NotSynced.
C13_AheadPeerPasses ==
    [][\A r \in Reqs :
        (/\ pc[r] = "lagcheck"
         /\ pc'[r] # "lagcheck"
         /\ ~Lt32(local[r].peerHeight, local[r].height)) =>
            \A i \in DOMAIN replies'[r] : replies'[r][i].kind # "NotSynced"]_vars

\* C14: every stored record was inserted by a request whose transfer returned
\* a hash, and a request whose transfer failed (empty hash) calls no SetData
\* and stores nothing, so its peer identity can still be authorized later.
C14_RecordOnlyAfterTransfer ==
    /\ \A rec \in store :
          \E r \in Reqs :
              /\ Sent(r) /\ tx[r].set = "ok"
              /\ tx[r].peerID = rec.peerIdentity
              /\ m[r].Author = rec.requesterUserID
    /\ \A r \in Reqs :
          /\ tx[r].set # "none" => Sent(r)
          /\ tx[r].hash = "" =>
                /\ calls[r].bond = 1 /\ calls[r].set = 0
                /\ StoredBy(r) = {}
                /\ pc[r] = "done"

C14_Witness ==
    \E r, q \in Reqs :
        /\ r < q
        /\ tx[r].hash = "" /\ pc[r] = "done"
        /\ tx[q].peerID = tx[r].peerID
        /\ Sent(q) /\ tx[q].set = "ok"
        /\ RecordsOf(store, tx[r].peerID) = StoredBy(q)

\* the replies a reserved keyword may be answered with
KeywordReplies(c) ==
    IF c = Help THEN {"Help"}
    ELSE IF c = Address THEN {"FaucetAddress"}
    ELSE IF c = Balance THEN {"Balance"}
    ELSE {"NetworkBase", "NetworkStats", "NetworkFull"}

\* C15: a message written by the bot gets no reply and causes no node, store
\* or wallet call; a message that is exactly a reserved keyword gets that
\* keyword's reply and never enters the faucet flow (no address validation,
\* no store read or write, no transfer).
C15_OwnAndKeywordMessages ==
    \A r \in Reqs :
        /\ (pc[r] # "idle" /\ m[r].Author = BotID) =>
              /\ replies[r] = <<>>
              /\ calls[r] = NoCalls /\ tx[r] = NoTx /\ local[r] = NoLocal
              /\ pc[r] \in {"handler", "done"}
              /\ StoredBy(r) = {}
        /\ (pc[r] # "idle" /\ m[r].Author # BotID /\ m[r].Content \in Keywords) =>
              /\ pc[r] \in {"handler", "ni_network", "ni_chain", "done"}
              /\ calls[r].get = 0 /\ calls[r].set = 0 /\ calls[r].bond = 0
              /\ tx[r] = NoTx /\ local[r] = NoLocal
              /\ StoredBy(r) = {}
              /\ \A i \in DOMAIN replies[r] :
                    replies[r][i].kind \in KeywordReplies(m[r].Content)
              /\ pc[r] = "done" => Len(replies[r]) = 1

C15_Witness ==
    \E r, q \in Reqs :
        /\ pc[r] = "done" /\ m[r].Author = BotID /\ m[r].Content = AddrA
        /\ pc[q] = "done" /\ m[q].Author # BotID /\ m[q].Content = Balance
        /\ replies[q] = <<Msg("Balance", NoAddr, Zero32, available)>>

\* C18: the network report always ends with one message: the base text alone
\* when the connection or the network-info query failed, base text and network
\* statistics when the blockchain-info query failed, all of it otherwise; it
\* never reads or writes the store and never calls the wallet.
C18_NetworkReportDegrades ==
    \A r \in Reqs :
        (pc[r] # "idle" /\ m[r].Author # BotID /\ m[r].Content = Network) =>
            LET c == calls[r] IN
            /\ c.get = 0 /\ c.set = 0 /\ c.bal = 0 /\ c.bond = 0
            /\ tx[r] = NoTx /\ StoredBy(r) = {}
            /\ pc[r] # "done" => (replies[r] = <<>> /\ c.fail = 0)
            /\ pc[r] = "done" =>
                  /\ c.conn = 1
                  /\ (c.query < 2 /\ c.fail = 1) => replies[r] = <<Plain("NetworkBase")>>
                  /\ (c.query = 2 /\ c.fail = 1) => replies[r] = <<Plain("NetworkStats")>>
                  /\ c.fail = 0 => (c.query = 2 /\ replies[r] = <<Plain("NetworkFull")>>)
                  /\ c.fail <= 1 /\ c.query <= 2

C18_Witness ==
    \E r \in Reqs :
        /\ pc[r] = "done"
        /\ m[r].Content = Network
        /\ calls[r].query = 2 /\ calls[r].fail = 1
        /\ replies[r] = <<Plain("NetworkStats")>>

\* the positions of the connected peers whose consensus addresses contain a
Holders(peers, a) ==
    {i \in 1..Len(peers) :
        \E k \in 1..Len(peers[i].ConsensusAddress) : peers[i].ConsensusAddress[k] = a}

\* C16: GetPeerInfo returns the first connected peer whose consensus addresses
\* contain the address whenever there is one, fails with "peer does not exist"
\* exactly when there is none, and never returns a peer without the address.
C16_FirstPeerWithAddress ==
    facade.op = "GetPeerInfo" =>
        LET holders == Holders(facade.peers, facade.address)
        IN  /\ holders # {} =>
                  /\ facade.err = NoErr
                  /\ facade.peer = facade.peers[CHOOSE i \in holders : \A j \in holders : i <= j]
            /\ facade.err = PeerNotFound <=> holders = {}
            /\ facade.err = NoErr =>
                  \E i \in holders : facade.peer = facade.peers[i]

\* C17: every client operation whose node call errors fails with the call's
\* (connection) error; GetPeerInfo does not turn it into "peer does not exist".
C17_CallErrorIsReported ==
    (facade.op # "none" /\ ~facade.ok) => facade.err = RpcErr

====
